---- MODULE Spec2Model ----
(***************************************************************************)
(* Model of the multi sequence detector (src/main.py): the automaton       *)
(* builder build_transitions, the StreamMultiDetector session (construct,  *)
(* step, snapshot) and the command loop of main (show, reset, batches).    *)
(* Python lists are 0-based; the sequences here are 1-based, so pattern     *)
(* i of the code is patterns[i+1] here and so on.                          *)
(***************************************************************************)
EXTENDS Integers, Sequences, FiniteSets, TLC

(* ------------------------------ bounds -------------------------------- *)

\* Sum of the lengths of the patterns of one configured pattern list.
MaxTotalLen == 3

\* Number of symbols fed to one session since its construction.
MaxBits == 5

\* Length of the pattern of one call of build_transitions on its own.
MaxPatLen == 6

\* Number of characters of one line of symbols entered at main's prompt.
MaxBatch == 2

(* ----------------------------- alphabets ------------------------------ *)

\* main.py:48 the two symbols step accepts.
Bits == {"0", "1"}

\* What a caller may hand to step: the two bits and a foreign symbol.
Symbols == Bits \cup {"2"}

\* Characters str.strip() removes (main.py:5); one representative.
Whitespace == {" "}

Min(a, b) == IF a < b THEN a ELSE b

(* -------------------------------- state ------------------------------- *)

VARIABLES
    det,       \* the live session (main.py:105), NoSession before construction
    fed,       \* history: the symbols det has accepted since it was constructed
    hits,      \* history: per pattern, the positions of fed at which its counter grew
    before,    \* history: the session as it was right before the last call or command
    raised,    \* the exception the last call raised, "none" if it returned
    cmd,       \* the last line main read (main.py:115): [op, s]
    out,       \* the lines main printed for cmd
    twin,      \* a second session, built from det's pattern list and policy
    twinFed,   \* history: the symbols twin has accepted
    arg,       \* the arguments of a call of build_transitions on its own
    ret,       \* what that call returned, NoCall before it returns
    held       \* the lists a caller keeps from a call of det.snapshot(): [value, from, own]

vars == <<det, fed, hits, before, raised, cmd, out, twin, twinFed, arg, ret, held>>

NoSession == [none |-> TRUE]

NoCall == <<>>

NoCmd == [op |-> "none", s |-> <<>>]

NoHeld == [none |-> TRUE]

(* ------------------------ python list helpers ------------------------- *)

\* s[:n]
Prefix(s, n) == SubSeq(s, 1, Min(n, Len(s)))

\* s[-n:] for n > 0
Suffix(s, n) == SubSeq(s, Len(s) - Min(n, Len(s)) + 1, Len(s))

RECURSIVE lstrip(_)
lstrip(s) == IF s # <<>> /\ Head(s) \in Whitespace THEN lstrip(Tail(s)) ELSE s

RECURSIVE rstrip(_)
rstrip(s) ==
    IF s # <<>> /\ s[Len(s)] \in Whitespace
    THEN rstrip(SubSeq(s, 1, Len(s) - 1))
    ELSE s

\* pattern.strip()
strip(s) == rstrip(lstrip(s))

(* -------------------------- build_transitions ------------------------- *)

\* main.py:11-16, the loop "for size in range(limit, -1, -1)" from size down.
RECURSIVE nxt_loop(_, _, _)
nxt_loop(seq, temp, size) ==
    IF size < 0 THEN 0
    ELSE LET suffix == IF size > 0 THEN Suffix(temp, size) ELSE <<>>
             prefix == Prefix(seq, size)
         IN  IF suffix = prefix THEN size ELSE nxt_loop(seq, temp, size - 1)

\* A matcher without the fall-back: any mismatch returns to state 0.
nxt_naive(seq, state_len, bit) ==
    IF state_len < Len(seq) /\ seq[state_len + 1] = bit THEN state_len + 1 ELSE 0

\* A matcher whose fall-back looks at the new symbol alone.
nxt_restart(seq, state_len, bit) ==
    IF state_len < Len(seq) /\ seq[state_len + 1] = bit THEN state_len + 1
    ELSE IF Len(seq) > 0 /\ seq[1] = bit THEN 1
    ELSE 0

\* The search started one size too low, "range(limit - 1, -1, -1)".
nxt_short(seq, state_len, bit) ==
    LET temp  == Prefix(seq, state_len) \o <<bit>>
        limit == Min(Len(temp), Len(seq))
    IN  nxt_loop(seq, temp, limit - 1)

\* The symbol left out of the comparison: every symbol advances the match.
nxt_anybit(seq, state_len, bit) ==
    IF state_len < Len(seq) THEN state_len + 1
    ELSE LET temp  == Prefix(seq, state_len) \o <<bit>>
             limit == Min(Len(temp), Len(seq))
         IN  nxt_loop(seq, temp, limit)

\* main.py:8-16
nxt(seq, state_len, bit) ==
    LET temp  == Prefix(seq, state_len) \o <<bit>>
        limit == Min(Len(temp), Len(seq))
    IN  nxt_loop(seq, temp, limit)

\* main.py:18-20
base_table(seq) ==
    [st \in 0..Len(seq) |-> [b \in Bits |-> nxt(seq, st, b)]]

\* The second assignment (main.py:25) left out: only the '0' entry is overwritten.
patch_accept_half(transitions, plen, allow_overlap) ==
    IF ~allow_overlap /\ plen >= 1
    THEN [transitions EXCEPT ![plen]["0"] = transitions[0]["0"]]
    ELSE transitions

\* The wrong row copied: the accept row overwritten with row plen - 1.
patch_accept_wrong_row(transitions, plen, allow_overlap) ==
    IF ~allow_overlap /\ plen >= 1
    THEN [transitions EXCEPT ![plen] = [b \in Bits |-> transitions[plen - 1][b]]]
    ELSE transitions

\* The copy made the wrong way round: row 0 overwritten with the accept row.
patch_accept_reversed(transitions, plen, allow_overlap) ==
    IF ~allow_overlap /\ plen >= 1
    THEN [transitions EXCEPT ![0] = [b \in Bits |-> transitions[plen][b]]]
    ELSE transitions

\* main.py:22-25
patch_accept(transitions, plen, allow_overlap) ==
    IF ~allow_overlap /\ plen >= 1
    THEN [transitions EXCEPT ![plen] = [b \in Bits |-> transitions[0][b]]]
    ELSE transitions

\* The policy test inverted: the accept row is overwritten when overlap is allowed.
build_transitions_inverted(pattern, allow_overlap) ==
    LET seq == strip(pattern)
    IN  <<patch_accept(base_table(seq), Len(seq), ~allow_overlap), Len(seq)>>

\* The accept row left out: "range(plen)" for "range(plen + 1)".
build_transitions_norow(pattern, allow_overlap) ==
    LET seq == strip(pattern)
    IN  <<[st \in 0..(Len(seq) - 1) |-> [b \in Bits |-> nxt(seq, st, b)]], Len(seq)>>

\* main.py:3-27; returns <<transitions, plen>>.
build_transitions(pattern, allow_overlap) ==
    LET seq == strip(pattern)
    IN  <<patch_accept(base_table(seq), Len(seq), allow_overlap), Len(seq)>>

(* -------------------------- StreamMultiDetector ----------------------- *)

\* states and counts kept in class attributes that every instance shares: a
\* session constructed while another is live starts with the live one's.
StreamMultiDetector_shared(patterns, allow_overlap) ==
    [patterns      |-> patterns,
     allow_overlap |-> allow_overlap,
     tables        |-> [i \in 1..Len(patterns) |->
                            build_transitions(patterns[i], allow_overlap)[1]],
     plens         |-> [i \in 1..Len(patterns) |->
                            build_transitions(patterns[i], allow_overlap)[2]],
     states        |-> IF det = NoSession THEN [i \in 1..Len(patterns) |-> 0]
                       ELSE det.states,
     counts        |-> IF det = NoSession THEN [i \in 1..Len(patterns) |-> 0]
                       ELSE det.counts]

\* states and counts sized by the first pattern, [0] * len(patterns[0]), one
\* entry per symbol of it and not one per pattern.
StreamMultiDetector_per_symbol(patterns, allow_overlap) ==
    [patterns      |-> patterns,
     allow_overlap |-> allow_overlap,
     tables        |-> [i \in 1..Len(patterns) |->
                            build_transitions(patterns[i], allow_overlap)[1]],
     plens         |-> [i \in 1..Len(patterns) |->
                            build_transitions(patterns[i], allow_overlap)[2]],
     states        |-> [i \in 1..Len(patterns[1]) |-> 0],
     counts        |-> [i \in 1..Len(patterns[1]) |-> 0]]

\* main.py:35-45
StreamMultiDetector(patterns, allow_overlap) ==
    [patterns      |-> patterns,
     allow_overlap |-> allow_overlap,
     tables        |-> [i \in 1..Len(patterns) |->
                            build_transitions(patterns[i], allow_overlap)[1]],
     plens         |-> [i \in 1..Len(patterns) |->
                            build_transitions(patterns[i], allow_overlap)[2]],
     states        |-> [i \in 1..Len(patterns) |-> 0],
     counts        |-> [i \in 1..Len(patterns) |-> 0]]

\* The accept test made against the first pattern's length, plens[0], for every i.
advance_shared(d, bit) ==
    LET new == [i \in 1..Len(d.patterns) |-> d.tables[i][d.states[i]][bit]]
    IN  [d EXCEPT
           !.states = new,
           !.counts = [i \in 1..Len(d.patterns) |->
                          IF new[i] = d.plens[1] THEN d.counts[i] + 1
                          ELSE d.counts[i]]]

\* The accept test made on the state the automaton leaves, not the one it enters.
advance_old_state(d, bit) ==
    LET new == [i \in 1..Len(d.patterns) |-> d.tables[i][d.states[i]][bit]]
    IN  [d EXCEPT
           !.states = new,
           !.counts = [i \in 1..Len(d.patterns) |->
                          IF d.states[i] = d.plens[i] THEN d.counts[i] + 1
                          ELSE d.counts[i]]]

\* The new state written into plens[i] instead of states[i].
advance_plens(d, bit) ==
    LET new == [i \in 1..Len(d.patterns) |-> d.tables[i][d.states[i]][bit]]
    IN  [d EXCEPT
           !.plens = new,
           !.counts = [i \in 1..Len(d.patterns) |->
                          IF new[i] = d.plens[i] THEN d.counts[i] + 1
                          ELSE d.counts[i]]]

\* main.py:50-56, the loop over the patterns; every index reads and writes
\* only its own entries, so the loop is the pointwise update.
advance(d, bit) ==
    LET new == [i \in 1..Len(d.patterns) |-> d.tables[i][d.states[i]][bit]]
    IN  [d EXCEPT
           !.states = new,
           !.counts = [i \in 1..Len(d.patterns) |->
                          IF new[i] = d.plens[i] THEN d.counts[i] + 1
                          ELSE d.counts[i]]]

\* A foreign symbol treated as a mismatch before the error is raised: every
\* automaton falls back to state 0.
step_zeroing(d, bit) ==
    IF bit \notin Bits
    THEN [raised |-> "ValueError",
          det |-> [d EXCEPT !.states = [i \in 1..Len(d.patterns) |-> 0]]]
    ELSE [raised |-> "none", det |-> advance(d, bit)]

\* main.py:47-56; the call's outcome: the exception raised and the session after it.
step(d, bit) ==
    IF bit \notin Bits
    THEN [raised |-> "ValueError", det |-> d]
    ELSE [raised |-> "none", det |-> advance(d, bit)]

\* main.py:58-60
snapshot(d) == <<d.counts, d.states>>

\* A snapshot that hands out self.counts and self.states themselves.
snapshot_is_view == FALSE

\* main.py:60: list(self.counts) and list(self.states) are new lists.
snapshot_is_copy == TRUE

(* ------------------------------- inputs ------------------------------- *)

\* The patterns of length k over the alphabet.
PatternsOfLen(k) == [1..k -> Bits]

\* Every list of non-empty patterns over the alphabet of total length <= n.
RECURSIVE PatternLists(_)
PatternLists(n) ==
    {<<>>} \cup
    UNION { { <<p>> \o rest : p \in PatternsOfLen(k), rest \in PatternLists(n - k) } :
            k \in 1..n }

\* Patterns a validating caller (main.py:69) would refuse: empty, a foreign
\* symbol, surrounding whitespace.
InvalidPatterns == { <<>>, <<"1", "0", "2">>, <<" ", "1">> }

InvalidLists ==
    { <<p>> : p \in InvalidPatterns } \cup { << <<"1">>, p >> : p \in InvalidPatterns }

\* Pattern lists entered at main's prompt: one short pattern, one that
\* overlaps itself, two patterns that end together, one pattern twice.
MainLists ==
    { << <<"1">> >>,
      << <<"1", "0", "1">> >>,
      << <<"0", "1">>, <<"1">> >>,
      << <<"1", "1">>, <<"1", "1">> >> }

\* main.py:69 the caller's test of one pattern line.
IsValidPattern(p) == p # <<>> /\ \A k \in 1..Len(p) : p[k] \in Bits

(* ------------------------------ main loop ----------------------------- *)

\* main.py:90-94; the printed line "p:c | p:c | ..." as the list of its pairs.
pretty_counts(patterns, counts) ==
    [i \in 1..Min(Len(patterns), Len(counts)) |-> <<patterns[i], counts[i]>>]

\* main.py:128
RejectMessage == "Only '0'/'1', 'show', 'reset', or empty to quit."

\* main.py:124
ResetMessage == "State and counts reset."

\* One printed line, with the value det.snapshot() returned for it (<<>> when
\* the line is a message and no snapshot was taken).
Printed(snap, text) == [snapshot |-> snap, printed |-> text]

\* The snapshot taken before the step: every line shows the counts one symbol late.
RECURSIVE feed_loop_late(_, _, _)
feed_loop_late(d, s, lines) ==
    IF s = <<>> THEN [det |-> d, out |-> lines]
    ELSE LET e    == step(d, Head(s)).det
             snap == snapshot(d)
         IN  feed_loop_late(e, Tail(s),
                 Append(lines, Printed(snap, pretty_counts(d.patterns, snap[1]))))

\* main.py:130-133, the loop "for ch in s" from session d on, lines those
\* printed so far.
RECURSIVE feed_loop(_, _, _)
feed_loop(d, s, lines) ==
    IF s = <<>> THEN [det |-> d, out |-> lines]
    ELSE LET e    == step(d, Head(s)).det
             snap == snapshot(e)
         IN  feed_loop(e, Tail(s),
                 Append(lines, Printed(snap, pretty_counts(e.patterns, snap[1]))))

\* The longest prefix of s that holds bits only.
RECURSIVE LeadingBits(_)
LeadingBits(s) ==
    IF s # <<>> /\ Head(s) \in Bits THEN <<Head(s)>> \o LeadingBits(Tail(s)) ELSE <<>>

\* No test of the whole line first: the symbols are stepped until one is refused.
feed_lazy(d, s) ==
    IF \E k \in 1..Len(s) : s[k] \notin Bits
    THEN LET r == feed_loop(d, LeadingBits(s), <<>>)
         IN  [accepted |-> FALSE, det |-> r.det,
              out |-> Append(r.out, Printed(<<>>, RejectMessage))]
    ELSE [accepted |-> TRUE] @@ feed_loop(d, s, <<>>)

\* main.py:126-133, a line that is neither "show" nor "reset": refused whole
\* when any character is not a bit, else stepped symbol by symbol.
feed(d, s) ==
    IF \E k \in 1..Len(s) : s[k] \notin Bits
    THEN [accepted |-> FALSE, det |-> d, out |-> <<Printed(<<>>, RejectMessage)>>]
    ELSE [accepted |-> TRUE] @@ feed_loop(d, s, <<>>)

(* ---------------------------- initial state ------------------------- *)

\* Nothing constructed, nothing read, nothing called.
Idle ==
    /\ det = NoSession
    /\ fed = <<>>
    /\ hits = <<>>
    /\ before = NoSession
    /\ raised = "none"
    /\ cmd = NoCmd
    /\ out = <<>>
    /\ twin = NoSession
    /\ twinFed = <<>>
    /\ ret = NoCall
    /\ held = NoHeld

Init == Idle /\ arg = NoCall

\* The positions recorded for a call that took counts c to d at length n of fed.
Marked(h, c, d, n) ==
    [i \in 1..Len(h) |-> IF d[i] # c[i] THEN h[i] \cup {n} ELSE h[i]]

\* det = StreamMultiDetector(patterns, allow_overlap) for a list out of lists,
\* main.py:35-45: no check of the patterns, no exception.
ConstructFrom(lists) ==
    /\ det = NoSession
    /\ \E patterns \in lists, allow_overlap \in BOOLEAN :
         /\ det' = StreamMultiDetector(patterns, allow_overlap)
         /\ hits' = [i \in 1..Len(patterns) |-> {}]
    /\ before' = det
    /\ raised' = "none"
    /\ UNCHANGED <<fed, cmd, out, twin, twinFed, arg, ret, held>>

\* A caller of the class that hands over any list of patterns.
Construct == ConstructFrom(PatternLists(MaxTotalLen) \cup InvalidLists)

\* What the caller's lists hold once the session has become d: step writes
\* into self.states and self.counts in place (main.py:53-55), which shows in
\* the caller's lists when they are those very lists.
Seen(h, d) ==
    IF h # NoHeld /\ h.own THEN [h EXCEPT !.value = <<d.counts, d.states>>] ELSE h

\* det.step(bit), main.py:47-56.
StepWith(bit) ==
    /\ det # NoSession
    /\ LET r == step(det, bit)
           f == IF r.raised = "none" THEN Append(fed, bit) ELSE fed
       IN  /\ r.raised = "none" => Len(fed) < MaxBits
           /\ det' = r.det
           /\ raised' = r.raised
           /\ fed' = f
           /\ hits' = Marked(hits, det.counts, r.det.counts, Len(f))
    /\ before' = det
    /\ held' = Seen(held, step(det, bit).det)
    /\ UNCHANGED <<cmd, out, twin, twinFed, arg, ret>>

\* A caller of the class that hands over any symbol.
Step == \E bit \in Symbols : StepWith(bit)

Next == Construct \/ Step

Spec == Init /\ [][Next]_vars

(* ------------------ build_transitions called on its own ---------------- *)

InitBuild ==
    /\ Idle
    /\ arg \in ((UNION { PatternsOfLen(k) : k \in 1..MaxPatLen }) \cup InvalidPatterns)
                 \X BOOLEAN

Build ==
    /\ ret = NoCall
    /\ ret' = build_transitions(arg[1], arg[2])
    /\ UNCHANGED <<det, fed, hits, before, raised, cmd, out, twin, twinFed, arg, held>>

NextBuild == Build

SpecBuild == InitBuild /\ [][NextBuild]_vars

(* --------------------------- main, lines 96-134 ------------------------ *)

\* main.py:98-105: prompt_patterns returns a non-empty list of non-empty
\* lines of 0s and 1s (main.py:69-75), prompt_overlap the policy, and det is
\* constructed from them.
MainStart == ConstructFrom(MainLists)

\* main.py:118-121, the line "show".
Show ==
    /\ det # NoSession
    /\ cmd' = [op |-> "show", s |-> <<>>]
    /\ LET snap == snapshot(det)
       IN  out' = <<Printed(snap, pretty_counts(det.patterns, snap[1]))>>
    /\ before' = det
    /\ raised' = "none"
    /\ UNCHANGED <<det, fed, hits, twin, twinFed, arg, ret, held>>

\* A reset in place that zeroes the counters and leaves the states.
Reset_counts_only ==
    /\ det # NoSession
    /\ cmd' = [op |-> "reset", s |-> <<>>]
    /\ det' = [det EXCEPT !.counts = [i \in 1..Len(det.patterns) |-> 0]]
    /\ fed' = <<>>
    /\ hits' = [i \in 1..Len(det.patterns) |-> {}]
    /\ out' = <<Printed(<<>>, ResetMessage)>>
    /\ before' = det
    /\ raised' = "none"
    /\ UNCHANGED <<twin, twinFed, arg, ret, held>>

\* main.py:122-125, the line "reset". main's patterns and allow_overlap are
\* the very values det was constructed from (main.py:105, 36-37).
Reset ==
    /\ det # NoSession
    /\ cmd' = [op |-> "reset", s |-> <<>>]
    /\ det' = StreamMultiDetector(det.patterns, det.allow_overlap)
    /\ fed' = <<>>
    /\ hits' = [i \in 1..Len(det.patterns) |-> {}]
    /\ out' = <<Printed(<<>>, ResetMessage)>>
    /\ before' = det
    /\ raised' = "none"
    /\ UNCHANGED <<twin, twinFed, arg, ret, held>>

\* The positions at which the lines of a batch show a counter grown, the
\* batch starting from counts c at length n of fed.
RECURSIVE MarkedAll(_, _, _, _)
MarkedAll(h, c, lines, n) ==
    IF lines = <<>> THEN h
    ELSE MarkedAll(Marked(h, c, Head(lines).snapshot[1], n + 1),
                   Head(lines).snapshot[1], Tail(lines), n + 1)

\* main.py:126-133, any other non-empty line.
Feed ==
    /\ det # NoSession
    /\ \E s \in UNION { [1..n -> Symbols] : n \in 1..MaxBatch } :
         LET r == feed(det, s)
         IN  /\ r.accepted => Len(fed) + Len(s) <= MaxBits
             /\ cmd' = [op |-> "bits", s |-> s]
             /\ det' = r.det
             /\ out' = r.out
             /\ fed' = IF r.accepted THEN fed \o s ELSE fed
             /\ hits' = IF r.accepted THEN MarkedAll(hits, det.counts, r.out, Len(fed))
                        ELSE hits
    /\ before' = det
    /\ raised' = "none"
    /\ UNCHANGED <<twin, twinFed, arg, ret, held>>

NextMain == MainStart \/ Show \/ Reset \/ Feed

SpecMain == Init /\ [][NextMain]_vars

(* ------------------- a caller that keeps a snapshot -------------------- *)

\* held = det.snapshot(), main.py:58-60.
Snapshot ==
    /\ det # NoSession
    /\ held' = [value |-> snapshot(det), from |-> det, own |-> ~snapshot_is_copy]
    /\ before' = det
    /\ raised' = "none"
    /\ UNCHANGED <<det, fed, hits, cmd, out, twin, twinFed, arg, ret>>

\* The caller writes into the first entry of one of the two lists it holds,
\* held[k][0] = -1; the session's list changes with it when it is that list.
Scribble ==
    /\ det # NoSession
    /\ held # NoHeld
    /\ \E k \in 1..2 :
         /\ held' = [held EXCEPT !.value[k][1] = -1]
         /\ det' = IF ~held.own THEN det
                   ELSE IF k = 1 THEN [det EXCEPT !.counts[1] = -1]
                   ELSE [det EXCEPT !.states[1] = -1]
    /\ before' = det
    /\ raised' = "none"
    /\ UNCHANGED <<fed, hits, cmd, out, twin, twinFed, arg, ret>>

NextSnap == MainStart \/ Step \/ Snapshot \/ Scribble \/ Reset

SpecSnap == Init /\ [][NextSnap]_vars

(* ---------------------- two sessions, one pattern list ----------------- *)

\* A second StreamMultiDetector(patterns, allow_overlap) from the list and
\* the policy det was constructed from.
TwinConstruct ==
    /\ det # NoSession
    /\ twin = NoSession
    /\ twin' = StreamMultiDetector(det.patterns, det.allow_overlap)
    /\ UNCHANGED <<det, fed, hits, before, raised, cmd, out, twinFed, arg, ret, held>>

\* twin.step(bit) with the next symbol of those det has accepted.
TwinStep ==
    /\ twin # NoSession
    /\ Len(twinFed) < Len(fed)
    /\ LET bit == fed[Len(twinFed) + 1]
       IN  /\ twin' = step(twin, bit).det
           /\ twinFed' = Append(twinFed, bit)
    /\ UNCHANGED <<det, fed, hits, before, raised, cmd, out, arg, ret, held>>

NextTwin == MainStart \/ (\E bit \in Bits : StepWith(bit)) \/ TwinConstruct \/ TwinStep

SpecTwin == Init /\ [][NextTwin]_vars

(* --------------------------- reference notions ------------------------ *)

\* v itself; the comparison makes TLC compute v once, here, and not again
\* at each later use of it.
Strict(v) == IF v = v THEN v ELSE v

\* The session a fresh one becomes when fed bits, one step per symbol.
RECURSIVE Replay(_, _)
Replay(d, bits) ==
    IF bits = <<>> THEN d
    ELSE Replay(Strict(step(d, Head(bits)).det), Tail(bits))

Fresh(d) == StreamMultiDetector(d.patterns, d.allow_overlap)

\* The positions j of s (1-based) at which an occurrence of p ends.
MatchEnds(p, s) ==
    { j \in 1..Len(s) : j >= Len(p) /\ SubSeq(s, j - Len(p) + 1, j) = p }

SetMin(S) == CHOOSE x \in S : \A y \in S : x <= y

\* Left-to-right greedy scan: the earliest occurrence of p that starts at or
\* after position from, then again from the symbol after its end.
RECURSIVE GreedyEnds(_, _, _)
GreedyEnds(p, s, from) ==
    LET cand == { j \in MatchEnds(p, s) : j - Len(p) + 1 >= from }
    IN  IF cand = {} THEN {}
        ELSE {SetMin(cand)} \cup GreedyEnds(p, s, SetMin(cand) + 1)

Live == det # NoSession

PatternIds == IF Live THEN 1..Len(det.patterns) ELSE {}

(* -------------------------------- claims ------------------------------ *)

\* C1: under the overlapping policy, for every pattern over {0,1}, the counter
\* after every step is the number of positions of the stream fed so far at
\* which an occurrence of the pattern ends (occurrences may overlap), and the
\* counter grew at exactly those positions.
C1_OverlapCounts ==
    (Live /\ det.allow_overlap) =>
        \A i \in PatternIds :
            IsValidPattern(det.patterns[i]) =>
                /\ hits[i] = MatchEnds(det.patterns[i], fed)
                /\ det.counts[i] = Cardinality(MatchEnds(det.patterns[i], fed))

\* 101 on 10101 counts 2 (ends at the 3rd and 5th symbol).
C1_Witness ==
    /\ Live /\ det.allow_overlap
    /\ det.patterns = << <<"1", "0", "1">> >>
    /\ fed = <<"1", "0", "1", "0", "1">>
    /\ det.counts = <<2>>
    /\ hits = <<{3, 5}>>

\* C2: under the non-overlapping policy the counted matches of a pattern over
\* {0,1} are exactly those of the left-to-right greedy scan (earliest
\* occurrence, then restart at the next symbol), so two counted matches share
\* no symbol: their end positions differ by at least the pattern's length.
C2_NonOverlapGreedy ==
    (Live /\ ~det.allow_overlap) =>
        \A i \in PatternIds :
            IsValidPattern(det.patterns[i]) =>
                /\ hits[i] = GreedyEnds(det.patterns[i], fed, 1)
                /\ det.counts[i] = Cardinality(hits[i])
                /\ \A j, k \in hits[i] : j < k => k - j >= Len(det.patterns[i])

\* 111 on 11111 counts 1 (the match ending at the 3rd symbol; 2 more symbols
\* do not complete a second one).
C2_Witness ==
    /\ Live /\ ~det.allow_overlap
    /\ det.patterns = << <<"1", "1", "1">> >>
    /\ fed = <<"1", "1", "1", "1", "1">>
    /\ det.counts = <<1>>
    /\ hits = <<{3}>>

\* C3: a step with a symbol other than '0' and '1' raises and leaves the
\* snapshot as it was before the call, and the session is at every moment the
\* one a fresh session becomes when fed the accepted symbols alone, as if no
\* rejected call had been made.
C3_RejectedStepAtomic ==
    Live =>
        /\ raised = "ValueError" => snapshot(det) = snapshot(before)
        /\ det = Replay(Fresh(det), fed)

\* A step rejected in mid-stream, right after 101 was matched.
C3_Witness ==
    /\ Live /\ raised = "ValueError"
    /\ det.patterns = << <<"1", "0", "1">> >>
    /\ fed = <<"1", "0", "1">>
    /\ snapshot(det) = << <<1>>, <<3>> >>

\* C4: a session is produced only from patterns that are non-empty and over
\* {0,1}; construction with any other pattern fails.
C4_InvalidPatternRefused ==
    Live => \A i \in PatternIds : IsValidPattern(det.patterns[i])

\* The snapshot of a session of d's patterns in which nothing has been fed.
Zeros(d) ==
    <<[i \in 1..Len(d.patterns) |-> 0], [i \in 1..Len(d.patterns) |-> 0]>>

\* C5: right after a reset the session is the one the constructor returns for
\* the same patterns and policy, a snapshot shown before any further symbol
\* is all zeros, and from then on the session is at every moment the one a
\* freshly constructed session becomes when fed the symbols entered since.
C5_ResetIsFresh ==
    Live =>
        /\ cmd.op = "reset" => (det = Fresh(before) /\ snapshot(det) = Zeros(det))
        /\ (cmd.op = "show" /\ fed = <<>>) => out[1].snapshot = Zeros(det)
        /\ snapshot(det) = snapshot(Replay(Fresh(det), fed))

\* A reset of a session that had counted two matches of 101 and stood in its
\* accept state.
C5_Witness ==
    /\ Live /\ cmd.op = "reset"
    /\ snapshot(before) = << <<2>>, <<3>> >>
    /\ snapshot(det) = << <<0>>, <<0>> >>

\* main.py:127
ValidLine(s) == \A k \in 1..Len(s) : s[k] \in Bits

\* C6: a line of bits is handled as one step per symbol in order, with one
\* snapshot taken and shown after every symbol: the k-th is the snapshot of the
\* session as it was before the line, stepped with the first k symbols.
C6_BatchIsStepByStep ==
    (Live /\ cmd.op = "bits" /\ ValidLine(cmd.s)) =>
        /\ Len(out) = Len(cmd.s)
        /\ \A k \in 1..Len(cmd.s) :
             LET d == Replay(before, Prefix(cmd.s, k))
             IN  /\ out[k].snapshot = snapshot(d)
                 /\ out[k].printed = pretty_counts(d.patterns, d.counts)
        /\ det = Replay(before, cmd.s)

\* The line 01 on patterns [01, 1]: counts [0, 0] after the first symbol,
\* [1, 1] after the second.
C6_Witness ==
    /\ Live /\ cmd = [op |-> "bits", s |-> <<"0", "1">>]
    /\ det.patterns = << <<"0", "1">>, <<"1">> >>
    /\ before.counts = <<0, 0>>
    /\ out[1].snapshot[1] = <<0, 0>>
    /\ out[2].snapshot[1] = <<1, 1>>

C8_TableTotal ==
    (ret # NoCall /\ IsValidPattern(arg[1])) =>
        LET L == Len(arg[1])
        IN  /\ ret[2] = L
            /\ DOMAIN ret[1] = 0..L
            /\ \A st \in 0..L :
                 /\ DOMAIN ret[1][st] = Bits
                 /\ \A b \in Bits : ret[1][st][b] \in 0..L

\* The non-overlapping table of 101, whose accept row was overwritten.
C8_Witness ==
    /\ ret # NoCall
    /\ arg = << <<"1", "0", "1">>, FALSE >>
    /\ ret[2] = 3
    /\ ret[1][3] = [b \in Bits |-> IF b = "1" THEN 1 ELSE 0]

Single(i) == Replay(StreamMultiDetector(<<det.patterns[i]>>, det.allow_overlap), fed)

\* C10: the state and the counter of pattern i are those of the
\* single-pattern session for pattern i fed the same symbols, whatever else
\* is configured and wherever pattern i stands in the list.
C10_Independence ==
    Live =>
        \A i \in PatternIds :
            LET one == Single(i)
            IN  /\ det.states[i] = one.states[1]
                /\ det.counts[i] = one.counts[1]

\* Patterns [01, 1] on 011 count [1, 2].
C10_Witness ==
    /\ Live /\ det.allow_overlap
    /\ det.patterns = << <<"0", "1">>, <<"1">> >>
    /\ fed = <<"0", "1", "1">>
    /\ det.counts = <<1, 2>>

\* C11, as claimed: under either policy automaton i is in its accept state
\* if and only if the last L_i symbols fed equal pattern i.
C11_AcceptIffSuffix ==
    Live =>
        \A i \in PatternIds :
            IsValidPattern(det.patterns[i]) =>
                (det.states[i] = det.plens[i]
                    <=> Len(fed) \in MatchEnds(det.patterns[i], fed))

\* C11, amended: automaton i is in its accept state only if the last L_i
\* symbols fed equal pattern i. Under the overlapping policy the converse
\* holds too; under the non-overlapping policy the automaton is in its accept
\* state exactly when that occurrence is one of the greedy scan, that is when
\* it shares no symbol with the match counted before it.
C11_AcceptIffCountedMatch ==
    Live =>
        \A i \in PatternIds :
            IsValidPattern(det.patterns[i]) =>
                /\ det.states[i] = det.plens[i]
                     => Len(fed) \in MatchEnds(det.patterns[i], fed)
                /\ det.allow_overlap =>
                     (det.states[i] = det.plens[i]
                        <=> Len(fed) \in MatchEnds(det.patterns[i], fed))
                /\ ~det.allow_overlap =>
                     (det.states[i] = det.plens[i]
                        <=> Len(fed) \in GreedyEnds(det.patterns[i], fed, 1))

\* 11 on 111, non-overlapping: the last two symbols are 11 and the automaton
\* is in state 1, the second 1 having been used by the match counted before.
C11_Witness ==
    /\ Live /\ ~det.allow_overlap
    /\ det.patterns = << <<"1", "1">> >>
    /\ fed = <<"1", "1", "1">>
    /\ det.states = <<1>>
    /\ det.counts = <<1>>

\* C12: snapshot is a pure read. The lists a caller keeps from it are the
\* counts and the states the session had at the call, one entry per pattern in
\* configuration order; the session is left as its accepted symbols made it,
\* whatever the caller writes into those lists; and the lists keep what they
\* held, apart from what the caller wrote, whatever is stepped afterwards.
C12_SnapshotIsPureCopy ==
    (Live /\ held # NoHeld) =>
        /\ det = Replay(Fresh(det), fed)
        /\ Len(held.value[1]) = Len(det.patterns)
        /\ Len(held.value[2]) = Len(det.patterns)
        /\ \A i \in PatternIds :
             /\ held.value[1][i] \in {held.from.counts[i], -1}
             /\ held.value[2][i] \in {held.from.states[i], -1}
             /\ i > 1 => /\ held.value[1][i] = held.from.counts[i]
                         /\ held.value[2][i] = held.from.states[i]

\* Pattern 1: a snapshot taken after one match, its counter overwritten by
\* the caller, and the session stepped to a second match afterwards.
C12_Witness ==
    /\ Live /\ held # NoHeld
    /\ det.patterns = << <<"1">> >>
    /\ held.from.counts = <<1>>
    /\ held.value = << <<-1>>, <<1>> >>
    /\ fed = <<"1", "1">>
    /\ det.counts = <<2>>

\* The length of the longest suffix of s that is a prefix of p.
LongestSuffixPrefix(p, s) ==
    CHOOSE k \in 0..Min(Len(p), Len(s)) :
        /\ Suffix(s, k) = Prefix(p, k) \/ k = 0
        /\ \A m \in (k + 1)..Min(Len(p), Len(s)) : Suffix(s, m) # Prefix(p, m)

\* C13: under the overlapping policy, after any sequence of valid steps
\* states[i] is the length of the longest suffix of all the symbols fed since
\* construction that is a prefix of pattern i, at most L_i.
C13_StateIsLongestSuffixPrefix ==
    (Live /\ det.allow_overlap) =>
        \A i \in PatternIds :
            IsValidPattern(det.patterns[i]) =>
                /\ det.states[i] = LongestSuffixPrefix(det.patterns[i], fed)
                /\ det.states[i] <= det.plens[i]

\* 110 on 111: the state stays 2 on the third 1, the suffix 11 of the whole
\* stream, which the last symbol alone does not show.
C13_Witness ==
    /\ Live /\ det.allow_overlap
    /\ det.patterns = << <<"1", "1", "0">> >>
    /\ fed = <<"1", "1", "1">>
    /\ det.states = <<2>>

\* The last call was a step that returned: the session before it, the symbol.
Stepped == Live /\ before # NoSession /\ raised = "none" /\ fed # <<>>

\* C14: a valid step moves every automaton once along its own table on the
\* symbol fed, states[i] becoming table_i[states[i]][bit], and adds 1 to
\* counts[i] if the new state is L_i and nothing otherwise; so no counter
\* decreases over a step and no counter exceeds the number of symbols fed
\* since construction.
C14_StepAdvancesOnce ==
    /\ Stepped =>
         \A i \in PatternIds :
             /\ det.states[i] = before.tables[i][before.states[i]][fed[Len(fed)]]
             /\ det.counts[i] = before.counts[i]
                                 + (IF det.states[i] = det.plens[i] THEN 1 ELSE 0)
             /\ det.counts[i] >= before.counts[i]
    /\ Live => \A i \in PatternIds : det.counts[i] \in 0..Len(fed)

\* 11 with the overlapping policy on 111: the third step goes from the accept
\* state to the accept state and takes the counter from 1 to 2.
C14_Witness ==
    /\ Stepped /\ det.allow_overlap
    /\ det.patterns = << <<"1", "1">> >>
    /\ fed = <<"1", "1", "1">>
    /\ before.states = <<2>> /\ before.counts = <<1>>
    /\ det.states = <<2>> /\ det.counts = <<2>>

\* C15: in every state of a session that is stepped with valid and foreign
\* symbols, read by snapshots and reset, states and counts have one entry per
\* configured pattern, entry i belonging to pattern i: states[i] is in
\* 0..L_i and counts[i] is a natural number; as long as no symbol has been
\* accepted since construction or reset, all states and all counts are 0.
C15_ShapeAndRange ==
    Live =>
        /\ DOMAIN det.states = 1..Len(det.patterns)
        /\ DOMAIN det.counts = 1..Len(det.patterns)
        /\ \A i \in PatternIds :
             /\ det.plens[i] = Len(det.patterns[i])
             /\ det.states[i] \in 0..Len(det.patterns[i])
             /\ det.counts[i] \in Nat
        /\ fed = <<>> => \A i \in PatternIds : det.states[i] = 0 /\ det.counts[i] = 0

\* Patterns 01 and 1 after a reset, a snapshot, 01 and then a foreign
\* symbol: the first automaton is in its accept state 2, the second in its
\* accept state 1.
C15_Witness ==
    /\ Live /\ held # NoHeld
    /\ det.patterns = << <<"0", "1">>, <<"1">> >>
    /\ fed = <<"0", "1">>
    /\ det.states = <<2, 1>>
    /\ det.counts = <<1, 1>>
    /\ cmd.op = "reset"
    /\ raised = "ValueError"

\* A call of build_transitions on a pattern of 0s and 1s has returned.
Built == ret # NoCall /\ IsValidPattern(arg[1])

\* C16: the table built under the non-overlapping policy has the rows
\* 0..L-1 of the table built for the same pattern under the overlapping
\* policy; its row L is its row 0, table[L][b] = table[0][b]; and
\* table[0][b] is 1 if b is the first symbol of the pattern and 0 otherwise.
C16_NonOverlapRow ==
    (Built /\ ~arg[2]) =>
        LET L     == Len(arg[1])
            table == ret[1]
            over  == build_transitions(arg[1], TRUE)[1]
        IN  /\ DOMAIN table = DOMAIN over
            /\ \A s \in 0..(L - 1) : table[s] = over[s]
            /\ \A b \in Bits :
                 /\ table[L][b] = table[0][b]
                 /\ table[0][b] = (IF b = arg[1][1] THEN 1 ELSE 0)

\* 11 under the non-overlapping policy: row 2 is row 0 and sends 1 to state
\* 1, where the overlapping table stays in state 2.
C16_Witness ==
    /\ Built /\ ~arg[2]
    /\ arg[1] = <<"1", "1">>
    /\ ret[1][2] = [b \in Bits |-> IF b = "1" THEN 1 ELSE 0]
    /\ build_transitions(arg[1], TRUE)[1][2]["1"] = 2

\* The KMP failure function: the length of the longest proper prefix of the
\* first s symbols of p that is also a suffix of them, for s in 1..Len(p).
Failure(p, s) ==
    CHOOSE k \in 0..(s - 1) :
        /\ Prefix(p, k) = Suffix(Prefix(p, s), k) \/ k = 0
        /\ \A m \in (k + 1)..(s - 1) : Prefix(p, m) # Suffix(Prefix(p, s), m)

\* The transition function of the KMP automaton of p.
RECURSIVE KmpDelta(_, _, _)
KmpDelta(p, s, b) ==
    IF s < Len(p) /\ p[s + 1] = b THEN s + 1
    ELSE IF s = 0 THEN 0
    ELSE KmpDelta(p, Failure(p, s), b)

\* C17: the table built under the overlapping policy is the KMP automaton
\* of the pattern. table[s][b] = s + 1 when s < L and the pattern's symbol at
\* s is b; otherwise table[0][b] = 0 and, for s > 0 up to and including L,
\* table[s][b] = table[f(s)][b] with f the failure function.
C17_TableIsKmp ==
    (Built /\ arg[2]) =>
        LET p     == arg[1]
            table == ret[1]
        IN  \A s \in 0..Len(p), b \in Bits :
                /\ table[s][b] = KmpDelta(p, s, b)
                /\ table[s][b] =
                     (IF s < Len(p) /\ p[s + 1] = b THEN s + 1
                      ELSE IF s = 0 THEN 0
                      ELSE table[Failure(p, s)][b])

\* 1011 under the overlapping policy: from the accept state 4, whose failure
\* state is 1, the symbol 0 leads to state 2 as it does from state 1.
C17_Witness ==
    /\ Built /\ arg[2]
    /\ arg[1] = <<"1", "0", "1", "1">>
    /\ Failure(arg[1], 4) = 1
    /\ ret[1][4]["0"] = 2
    /\ ret[1][1]["0"] = 2

\* C18: the tables, the accept-state indices, the pattern list and the
\* policy of a session are those it was constructed with: the session after
\* a step, returned or raised, or after a snapshot has them as the session
\* before it had them.
C18_ConfigurationFrozen ==
    Live =>
        /\ det.tables = Fresh(det).tables
        /\ det.plens = Fresh(det).plens
        /\ before # NoSession =>
             /\ det.tables = before.tables
             /\ det.plens = before.plens
             /\ det.patterns = before.patterns
             /\ det.allow_overlap = before.allow_overlap

\* 101 held in a snapshot after 10, then stepped with 1 and with a foreign
\* symbol: a match is counted, the call before this state raised.
C18_Witness ==
    /\ Live /\ before # NoSession /\ held # NoHeld
    /\ det.patterns = << <<"1", "0", "1">> >>
    /\ held.from.states = <<2>>
    /\ fed = <<"1", "0", "1">>
    /\ det.counts = <<1>>
    /\ raised = "ValueError"
    /\ before = det

\* The session with det's patterns under the overlapping policy after bits.
Overlapping(bits) == Replay(StreamMultiDetector(det.patterns, TRUE), bits)

\* C19: a session under the non-overlapping policy compared with the session
\* of the same patterns under the overlapping policy fed the same symbols.
\* No counter exceeds the overlapping one; a position at which a counter
\* grew is one at which the overlapping counter grew; and until a match has
\* been counted before the current position, states and counts are the
\* overlapping session's.
C19_NonOverlapWithinOverlap ==
    (Live /\ ~det.allow_overlap) =>
        LET over == Overlapping(fed)
            prev == Overlapping(Prefix(fed, Len(fed) - 1))
        IN  \A i \in PatternIds :
                /\ det.counts[i] <= over.counts[i]
                /\ Len(fed) \in hits[i] => over.counts[i] = prev.counts[i] + 1
                /\ hits[i] \subseteq {Len(fed)} =>
                     /\ det.states[i] = over.states[i]
                     /\ det.counts[i] = over.counts[i]

\* 11 on 1111: the non-overlapping session counts at positions 2 and 4, the
\* overlapping one at 2, 3 and 4.
C19_Witness ==
    /\ Live /\ ~det.allow_overlap
    /\ det.patterns = << <<"1", "1">> >>
    /\ fed = <<"1", "1", "1", "1">>
    /\ hits = <<{2, 4}>>
    /\ det.counts = <<2>>
    /\ Overlapping(fed).counts = <<3>>

\* The state a table leads to from state st over the symbols w.
RECURSIVE Run(_, _, _)
Run(table, st, w) ==
    IF w = <<>> THEN st ELSE Run(table, table[st][Head(w)], Tail(w))

\* C20: in a table built under either policy no transition climbs by more
\* than one, table[s][b] <= s + 1; from a state s below L it climbs exactly
\* when b is the pattern's symbol at s; so no input shorter than L leads from
\* state 0 to the accept state, and the pattern itself does.
C20_ClimbsOneAtATime ==
    Built =>
        LET p     == arg[1]
            L     == ret[2]
            table == ret[1]
        IN  /\ L = Len(p)
            /\ \A s \in 0..L, b \in Bits : table[s][b] <= s + 1
            /\ \A s \in 0..(L - 1), b \in Bits :
                 table[s][b] = s + 1 <=> b = p[s + 1]
            /\ \A n \in 0..(L - 1) : \A w \in [1..n -> Bits] : Run(table, 0, w) < L
            /\ Run(table, 0, p) = L

\* 1011 under the non-overlapping policy: the pattern leads from state 0 to
\* the accept state 4, and from state 3 the symbol 0 falls back to state 2.
C20_Witness ==
    /\ Built /\ ~arg[2]
    /\ arg[1] = <<"1", "0", "1", "1">>
    /\ Run(ret[1], 0, arg[1]) = 4
    /\ ret[1][3]["0"] = 2
    /\ ret[1][3]["1"] = 4

====
